---- MODULE Spec2Model ----
(***************************************************************************)
(* Model of the two commit-message scripts of the repository:              *)
(*   summarize.py                (raw HTTP variant, urllib)                *)
(*   generate_commit_message.py  (SDK variant, openai.ChatCompletion)      *)
(* One run of one script is one behaviour: the environment (script,        *)
(* credential, argv) is fixed in Init, the remote endpoint's answer is     *)
(* chosen when the request is sent.                                        *)
(* Text is a sequence of one-character strings; a formatted message is a   *)
(* sequence of fragments (literal pieces and interpolated values).         *)
(***************************************************************************)
EXTENDS Integers, Sequences, FiniteSets, TLC

VARIABLES script, api_key, argv, pc, prompt, requests, request_messages,
          response, exc, message, stdout, stderr, exit_status

vars == <<script, api_key, argv, pc, prompt, requests, request_messages,
          response, exc, message, stdout, stderr, exit_status>>

\* ---------------------------------------------------------------- bounds
\* max_chars = 2000 * 4 in both scripts; scaled down so that every prompt
\* around the threshold can be enumerated.
max_chars == 3

\* Longest prompt enumerated: long enough that what remains after cutting
\* max_chars characters can itself exceed max_chars.
MaxLen == 2 * max_chars + 1

\* Longest message content the remote endpoint returns.
MaxContentLen == 2

\* ------------------------------------------------------------- alphabet
Whitespace == {" "}
Alphabet == {"a"} \cup Whitespace

StringsUpTo(n) == UNION {[1..k -> Alphabet] : k \in 0..n}

Range(s) == {s[i] : i \in DOMAIN s}

\* ------------------------------------------------------------ str.strip
\* CPython's strip: advance a left index over whitespace, then retreat a
\* right index over whitespace, return the slice between them.
RECURSIVE LeftIndex(_, _)
LeftIndex(s, i) ==
    IF i <= Len(s) /\ s[i] \in Whitespace THEN LeftIndex(s, i + 1) ELSE i

RECURSIVE RightIndex(_, _, _)
RightIndex(s, i, j) ==
    IF j >= i /\ s[j] \in Whitespace THEN RightIndex(s, i, j - 1) ELSE j

strip(s) ==
    LET i == LeftIndex(s, 1)
        j == RightIndex(s, i, Len(s))
    IN  SubSeq(s, i, j)

rstrip(s) == SubSeq(s, 1, RightIndex(s, 1, Len(s)))

\* s[:n] for n >= 0
Prefix(s, n) == SubSeq(s, 1, IF n < Len(s) THEN n ELSE Len(s))

\* s[:-n] for n > 0
DropLast(s, n) == SubSeq(s, 1, IF Len(s) > n THEN Len(s) - n ELSE 0)

\* ------------------------------------------------------ truncate_prompt
\* variants of truncate_prompt with a slip in them
truncate_prompt_rstrip(p) ==
    IF Len(p) <= max_chars THEN p ELSE rstrip(Prefix(p, max_chars))

truncate_prompt_strict(p) ==
    IF Len(p) < max_chars THEN p ELSE strip(Prefix(p, max_chars))

truncate_prompt_negative(p) ==
    IF Len(p) <= max_chars THEN p ELSE strip(DropLast(p, max_chars))

\* summarize.py
truncate_prompt(p) ==
    IF Len(p) <= max_chars THEN p ELSE strip(Prefix(p, max_chars))

\* generate_commit_message.py
gcm_truncate_prompt(p) ==
    IF Len(p) <= max_chars THEN p ELSE strip(Prefix(p, max_chars))

\* ------------------------------------------------------------- messages
SYSTEM_PROMPT == <<"SYSTEM_PROMPT">>
GCM_SYSTEM_PROMPT == <<"GCM_SYSTEM_PROMPT">>

Msg(role, content) == [role |-> role, content |-> content]

payload_messages_raw(p) ==
    << Msg("system", SYSTEM_PROMPT), Msg("user", p) >>

\* summarize.py: payload["messages"]
payload_messages(p) ==
    << Msg("system", SYSTEM_PROMPT), Msg("user", truncate_prompt(p)) >>

\* generate_commit_message.py: messages=[...]
gcm_messages(p) ==
    << Msg("system", GCM_SYSTEM_PROMPT), Msg("user", gcm_truncate_prompt(p)) >>

\* ------------------------------------------------- the remote endpoint
HttpCodes == {"401", "500"}
Bodies == {"{\"error\":\"server busy\"}", "Unauthorized"}

Resp(type, code, detail, choices) ==
    [type |-> type, code |-> code, detail |-> detail, choices |-> choices]

NoResponse == Resp("none", "", "", <<>>)

Choice(has, content) == [has_content |-> has, content |-> content]

ChoiceValues ==
    {Choice(FALSE, <<>>)} \cup {Choice(TRUE, c) : c \in StringsUpTo(MaxContentLen)}

\* What one request can come back with: a connection-level failure, a
\* non-success status with a body, a body that is not JSON, a JSON object
\* without "choices", or one with a list of zero or one choices (n = 1).
Responses ==
    {Resp("urlerror", "", "", <<>>)}
    \cup {Resp("httperror", c, d, <<>>) : c \in HttpCodes, d \in Bodies}
    \cup {Resp("invalid_json", "", "", <<>>)}
    \cup {Resp("no_choices_key", "", "", <<>>)}
    \cup {Resp("choices", "", "", <<>>)}
    \cup {Resp("choices", "", "", <<ch>>) : ch \in ChoiceValues}

\* ----------------------------------------------------------- exceptions
Exc(type, msg) == [type |-> type, msg |-> msg]
NoExc == Exc("none", <<>>)

\* Text of the exception the openai SDK raises for a failed request. The
\* SDK decides it, the script does not format it.
SdkErrorTexts(r) ==
    IF r.type = "httperror"
    THEN { <<r.detail>>, <<"HTTP code ", r.code, " from API (", r.detail, ")">>,
           <<"The server had an error while processing your request">> }
    ELSE { <<"Error communicating with OpenAI">> }

\* What the interpreter writes for an exception nobody caught.
Traceback(e) ==
    << <<"Traceback (most recent call last):">>,
       <<"  File \"generate_commit_message.py\", line ...">>,
       <<e.type, ": ">> \o e.msg >>

\* ----------------------------------------------------------------- Init
Init ==
    /\ script \in {"summarize", "gcm"}
    /\ api_key \in {"unset", "empty", "set"}
    /\ argv \in {<<>>} \cup {<<p>> : p \in StringsUpTo(MaxLen)}
    /\ pc = IF script = "summarize" THEN "main" ELSE "import"
    /\ prompt = <<>>
    /\ requests = 0
    /\ request_messages = <<>>
    /\ response = NoResponse
    /\ exc = NoExc
    /\ message = <<>>
    /\ stdout = <<>>
    /\ stderr = <<>>
    /\ exit_status = 0

Exit(code) == pc' = "exited" /\ exit_status' = code

Raise(target, e) == pc' = target /\ exc' = e

\* ========================================================= summarize.py
\* main(): len(sys.argv) < 2
main_usage ==
    /\ script = "summarize" /\ pc = "main"
    /\ Len(argv) < 1
    /\ stderr' = Append(stderr, <<"Usage: summarize.py '<prompt>'">>)
    /\ Exit(2)
    /\ UNCHANGED <<script, api_key, argv, prompt, requests, request_messages,
                   response, exc, message, stdout>>

\* main(): prompt = sys.argv[1]; call generate_commit_message(prompt)
main_call ==
    /\ script = "summarize" /\ pc = "main"
    /\ Len(argv) >= 1
    /\ prompt' = argv[1]
    /\ pc' = "generate"
    /\ UNCHANGED <<script, api_key, argv, requests, request_messages,
                   response, exc, message, stdout, stderr, exit_status>>

\* generate_commit_message: if not api_key: raise
generate_no_key ==
    /\ script = "summarize" /\ pc = "generate"
    /\ api_key \in {"unset", "empty"}
    /\ Raise("except", Exc("RuntimeError", <<"OPENAI_API_KEY is not set">>))
    /\ UNCHANGED <<script, api_key, argv, prompt, requests, request_messages,
                   response, message, stdout, stderr, exit_status>>

\* generate_commit_message: payload and Request object
generate_build_request ==
    /\ script = "summarize" /\ pc = "generate"
    /\ api_key = "set"
    /\ request_messages' = payload_messages(prompt)
    /\ pc' = "urlopen"
    /\ UNCHANGED <<script, api_key, argv, prompt, requests, response, exc,
                   message, stdout, stderr, exit_status>>

\* generate_commit_message: urllib.request.urlopen(req, timeout=30)
generate_urlopen ==
    /\ script = "summarize" /\ pc = "urlopen"
    /\ requests' = requests + 1
    /\ \E r \in Responses : response' = r
    /\ pc' = "response"
    /\ UNCHANGED <<script, api_key, argv, prompt, request_messages, exc,
                   message, stdout, stderr, exit_status>>

\* generate_commit_message: except urllib.error.HTTPError
generate_http_error ==
    /\ script = "summarize" /\ pc = "response"
    /\ response.type = "httperror"
    /\ Raise("except", Exc("RuntimeError",
             <<"OpenAI API request failed (", response.code, "): ",
               response.detail>>))
    /\ UNCHANGED <<script, api_key, argv, prompt, requests, request_messages,
                   response, message, stdout, stderr, exit_status>>

generate_url_error_retry ==
    /\ script = "summarize" /\ pc = "response"
    /\ response.type = "urlerror"
    /\ pc' = "urlopen"
    /\ UNCHANGED <<script, api_key, argv, prompt, requests, request_messages,
                   response, exc, message, stdout, stderr, exit_status>>

\* generate_commit_message: except urllib.error.URLError
generate_url_error ==
    /\ script = "summarize" /\ pc = "response"
    /\ response.type = "urlerror"
    /\ Raise("except", Exc("RuntimeError",
             <<"OpenAI API request failed: ", "<urlopen error>">>))
    /\ UNCHANGED <<script, api_key, argv, prompt, requests, request_messages,
                   response, message, stdout, stderr, exit_status>>

\* generate_commit_message: json.loads(body) fails
generate_bad_json ==
    /\ script = "summarize" /\ pc = "response"
    /\ response.type = "invalid_json"
    /\ Raise("except", Exc("JSONDecodeError", <<"Expecting value">>))
    /\ UNCHANGED <<script, api_key, argv, prompt, requests, request_messages,
                   response, message, stdout, stderr, exit_status>>

\* parsed.get("choices", [])
ParsedChoices(r) == IF r.type = "choices" THEN r.choices ELSE <<>>

\* choices[0].get("message", {}).get("content", "")
ChoiceContent(ch) == IF ch.has_content THEN ch.content ELSE <<>>

\* generate_commit_message: if not choices: raise
generate_no_choices ==
    /\ script = "summarize" /\ pc = "response"
    /\ response.type \in {"no_choices_key", "choices"}
    /\ ParsedChoices(response) = <<>>
    /\ Raise("except", Exc("RuntimeError",
             <<"OpenAI API response did not include choices">>))
    /\ UNCHANGED <<script, api_key, argv, prompt, requests, request_messages,
                   response, message, stdout, stderr, exit_status>>

\* generate_commit_message: content.strip(); empty -> raise, else return
generate_extract ==
    /\ script = "summarize" /\ pc = "response"
    /\ response.type \in {"no_choices_key", "choices"}
    /\ ParsedChoices(response) # <<>>
    /\ LET content == ChoiceContent(ParsedChoices(response)[1])
           m == strip(content)
       IN  IF m = <<>>
           THEN /\ Raise("except", Exc("RuntimeError",
                         <<"OpenAI API returned an empty commit message">>))
                /\ UNCHANGED message
           ELSE /\ message' = m
                /\ pc' = "print"
                /\ UNCHANGED exc
    /\ UNCHANGED <<script, api_key, argv, prompt, requests, request_messages,
                   response, stdout, stderr, exit_status>>

\* main(): except Exception as err
main_except ==
    /\ script = "summarize" /\ pc = "except"
    /\ stderr' = Append(stderr, <<"Error: ">> \o exc.msg)
    /\ Exit(1)
    /\ UNCHANGED <<script, api_key, argv, prompt, requests, request_messages,
                   response, exc, message, stdout>>

\* main(): print(commit_message), then the interpreter exits normally
main_print ==
    /\ script = "summarize" /\ pc = "print"
    /\ stdout' = Append(stdout, message)
    /\ Exit(0)
    /\ UNCHANGED <<script, api_key, argv, prompt, requests, request_messages,
                   response, exc, message, stderr>>

\* =========================================== generate_commit_message.py
\* module level: openai.api_key = os.environ["OPENAI_API_KEY"]
gcm_import ==
    /\ script = "gcm" /\ pc = "import"
    /\ IF api_key = "unset"
       THEN Raise("uncaught", Exc("KeyError", <<"'OPENAI_API_KEY'">>))
       ELSE pc' = "gcm_main" /\ UNCHANGED exc
    /\ UNCHANGED <<script, api_key, argv, prompt, requests, request_messages,
                   response, message, stdout, stderr, exit_status>>

\* __main__: prompt = sys.argv[1]
gcm_main_argv ==
    /\ script = "gcm" /\ pc = "gcm_main"
    /\ IF Len(argv) < 1
       THEN /\ Raise("uncaught", Exc("IndexError", <<"list index out of range">>))
            /\ UNCHANGED prompt
       ELSE /\ prompt' = argv[1]
            /\ pc' = "gcm_generate"
            /\ UNCHANGED exc
    /\ UNCHANGED <<script, api_key, argv, requests, request_messages,
                   response, message, stdout, stderr, exit_status>>

\* generate_commit_message: truncate, openai.ChatCompletion.create(...)
gcm_create ==
    /\ script = "gcm" /\ pc = "gcm_generate"
    /\ request_messages' = gcm_messages(prompt)
    /\ requests' = requests + 1
    /\ \E r \in Responses : response' = r
    /\ pc' = "gcm_response"
    /\ UNCHANGED <<script, api_key, argv, prompt, exc, message, stdout,
                   stderr, exit_status>>

\* create(...) raises: the SDK's exception leaves generate_commit_message
gcm_sdk_error ==
    /\ script = "gcm" /\ pc = "gcm_response"
    /\ response.type \in {"urlerror", "httperror", "invalid_json"}
    /\ \E text \in SdkErrorTexts(response) :
         Raise("uncaught", Exc("openai.error.OpenAIError", text))
    /\ UNCHANGED <<script, api_key, argv, prompt, requests, request_messages,
                   response, message, stdout, stderr, exit_status>>

\* generate_commit_message: response.choices[0].message['content'].strip()
gcm_extract ==
    /\ script = "gcm" /\ pc = "gcm_response"
    /\ response.type \in {"no_choices_key", "choices"}
    /\ IF response.type = "no_choices_key"
       THEN /\ Raise("uncaught", Exc("AttributeError", <<"choices">>))
            /\ UNCHANGED message
       ELSE IF response.choices = <<>>
       THEN /\ Raise("uncaught", Exc("IndexError", <<"list index out of range">>))
            /\ UNCHANGED message
       ELSE IF ~response.choices[1].has_content
       THEN /\ Raise("uncaught", Exc("KeyError", <<"'content'">>))
            /\ UNCHANGED message
       ELSE /\ message' = strip(response.choices[1].content)
            /\ pc' = "gcm_print"
            /\ UNCHANGED exc
    /\ UNCHANGED <<script, api_key, argv, prompt, requests, request_messages,
                   response, stdout, stderr, exit_status>>

\* __main__: print(commit_message), then the interpreter exits normally
gcm_print ==
    /\ script = "gcm" /\ pc = "gcm_print"
    /\ stdout' = Append(stdout, message)
    /\ Exit(0)
    /\ UNCHANGED <<script, api_key, argv, prompt, requests, request_messages,
                   response, exc, message, stderr>>

\* no try/except anywhere in the script: traceback on stderr, status 1
gcm_uncaught ==
    /\ script = "gcm" /\ pc = "uncaught"
    /\ stderr' = stderr \o Traceback(exc)
    /\ Exit(1)
    /\ UNCHANGED <<script, api_key, argv, prompt, requests, request_messages,
                   response, exc, message, stdout>>

Next ==
    \/ main_usage
    \/ main_call
    \/ generate_no_key
    \/ generate_build_request
    \/ generate_urlopen
    \/ generate_http_error
    \/ generate_url_error
    \/ generate_bad_json
    \/ generate_no_choices
    \/ generate_extract
    \/ main_except
    \/ main_print
    \/ gcm_import
    \/ gcm_main_argv
    \/ gcm_create
    \/ gcm_sdk_error
    \/ gcm_extract
    \/ gcm_print
    \/ gcm_uncaught

Spec == Init /\ [][Next]_vars

\* ============================================================ properties
Sent == requests >= 1

UserContent == request_messages[2].content

\* the first max_chars characters of an over-long prompt
Window == SubSeq(prompt, 1, max_chars)

AllWhitespace(w, lo, hi) == \A k \in lo..hi : w[k] \in Whitespace

\* r is w without its trailing whitespace, and nothing else removed
IsRightStripOf(r, w) ==
    \E j \in 0..Len(w) :
        /\ r = SubSeq(w, 1, Len(w) - j)
        /\ AllWhitespace(w, Len(w) - j + 1, Len(w))
        /\ (r = <<>> \/ r[Len(r)] \notin Whitespace)

\* r is w without its leading and trailing whitespace
IsStripOf(r, w) ==
    \E i \in 0..Len(w), j \in 0..Len(w) :
        /\ i + j <= Len(w)
        /\ r = SubSeq(w, i + 1, Len(w) - j)
        /\ AllWhitespace(w, 1, i)
        /\ AllWhitespace(w, Len(w) - j + 1, Len(w))
        /\ (r = <<>> \/ (r[1] \notin Whitespace /\ r[Len(r)] \notin Whitespace))

Exited == pc = "exited"

\* the first choice's content, as each script reads it, is blank
BlankContent ==
    /\ response.type = "choices"
    /\ response.choices # <<>>
    /\ strip(ChoiceContent(response.choices[1])) = <<>>

EmptyChoices ==
    \/ response.type = "no_choices_key"
    \/ response.type = "choices" /\ response.choices = <<>>

RequestFailed == response.type \in {"urlerror", "httperror"}

\* C1 (as stated): for a prompt longer than max_chars the user content of
\* the request is the first max_chars characters with only trailing
\* whitespace removed, so it starts with the prompt's first character.
C1_Original ==
    (Sent /\ Len(prompt) > max_chars) =>
        /\ IsRightStripOf(UserContent, Window)
        /\ (UserContent # <<>> => UserContent[1] = prompt[1])

\* C1 (amended): for a prompt longer than max_chars, truncate_prompt
\* returns the first max_chars characters with both leading and trailing
\* whitespace removed; its length is at most max_chars.
C1_Truncated ==
    (Sent /\ Len(prompt) > max_chars) =>
        /\ IsStripOf(UserContent, Window)
        /\ Len(UserContent) <= max_chars

C1_Witness ==
    /\ Sent /\ Len(prompt) > max_chars
    /\ prompt[1] \in Whitespace /\ prompt[2] \notin Whitespace
    /\ prompt[max_chars] \in Whitespace

\* C2: with OPENAI_API_KEY unset or empty, no request is ever sent and the
\* run ends with a non-zero exit status.
C2_NoKeyNoRequest ==
    (api_key \in {"unset", "empty"}) =>
        /\ requests = 0
        /\ (Exited => exit_status # 0)

\* C3: in a run with the credential present, every line printed to standard
\* output is non-empty after stripping, and a blank first-choice content
\* ends the run in a failure with nothing printed.
C3_NonEmptyMessage ==
    api_key = "set" =>
        /\ \A i \in DOMAIN stdout : strip(stdout[i]) # <<>>
        /\ (Exited /\ Sent /\ BlankContent) => (exit_status # 0 /\ stdout = <<>>)

\* C4: at most one request per run; exactly one once a run with an argument
\* and a credential has ended, whatever the request's outcome was.
C4_AtMostOneRequest ==
    /\ requests <= 1
    /\ (Exited /\ argv # <<>> /\ api_key = "set") => requests = 1

C4_Witness ==
    /\ Exited /\ requests = 1 /\ script = "summarize"
    /\ response.type = "urlerror" /\ exit_status = 1

\* C5: every failure kind ends with nothing on standard output, exactly one
\* diagnostic line on standard error (naming the missing choices when the
\* choices list is empty) and a non-zero exit status.
C5_FailuresCaught ==
    (Exited /\ (api_key # "set" \/ (Sent /\ (RequestFailed \/ EmptyChoices \/ BlankContent)))) =>
        /\ stdout = <<>>
        /\ Len(stderr) = 1
        /\ exit_status # 0
        /\ (Sent /\ EmptyChoices) =>
              "OpenAI API response did not include choices" \in Range(stderr[1])

\* C6: a run without a positional argument exits with status 2 and sends no
\* request (in summarize.py also when the credential is unset); a run whose
\* request fails exits with status 1.
C6_ExitCodes ==
    Exited =>
        /\ (argv = <<>> /\ (api_key = "set" \/ script = "summarize")) =>
              (exit_status = 2 /\ requests = 0)
        /\ (Sent /\ RequestFailed) => exit_status = 1

\* C7: for a prompt of at most max_chars characters (empty, or with leading
\* or trailing whitespace) the user content of the request is the prompt
\* itself.
C7_IdentityBelowThreshold ==
    (Sent /\ Len(prompt) <= max_chars) => UserContent = prompt

C7_Witness ==
    /\ Sent /\ Len(prompt) = max_chars
    /\ prompt[1] \in Whitespace /\ prompt[max_chars] \in Whitespace

\* C8: every request carries exactly two messages, system role first and
\* user role second, and the user content has at most max_chars characters.
C8_RequestShape ==
    Sent =>
        /\ Len(request_messages) = 2
        /\ request_messages[1].role = "system"
        /\ request_messages[2].role = "user"
        /\ Len(request_messages[2].content) <= max_chars

C8_Witness ==
    /\ Sent /\ script = "summarize" /\ Len(prompt) = MaxLen
    /\ Len(request_messages[2].content) = max_chars

\* C9: truncate_prompt is idempotent: applied to the content it produced
\* for the request, it returns that content.
C9_Idempotent ==
    Sent =>
        /\ script = "summarize" => truncate_prompt(UserContent) = UserContent
        /\ script = "gcm" => gcm_truncate_prompt(UserContent) = UserContent

C9_Witness ==
    /\ Sent /\ script = "summarize" /\ Len(prompt) > max_chars
    /\ Len(UserContent) < max_chars /\ UserContent # <<>>

\* C10: after a non-success HTTP status (credential present) the run exits
\* non-zero and a line of the diagnostic contains both the status code and
\* the response body.
C10_StatusAndBody ==
    (Exited /\ Sent /\ api_key = "set" /\ response.type = "httperror") =>
        /\ exit_status # 0
        /\ \E i \in DOMAIN stderr :
              /\ response.code \in Range(stderr[i])
              /\ response.detail \in Range(stderr[i])

====
